---- MODULE Spec2Model ----
(***************************************************************************)
(* RetryHelper.execute of VictoriaMetricsAdapter, in its two versions:     *)
(*   variant "A"  src/src/helper/retry_helper.py   (retry on exceptions    *)
(*                that retry_condition accepts)                            *)
(*   variant "B"  src/src/helpers/retry_helper.py  (retry on a raised      *)
(*                exception or on a result retry_condition rejects)        *)
(* One execute call is modelled statement by statement: pc names the       *)
(* statement about to run, trace records every observable effect (an       *)
(* invocation of func, a call of on_retry, an increment of attempt, a      *)
(* time.sleep) in program order.                                           *)
(***************************************************************************)
EXTENDS Integers, Sequences, FiniteSets

VARIABLES
    variant,          \* which retry_helper.py runs: "A" or "B"
    max_retries,      \* self.max_retries
    delay,            \* self.delay
    retry_condition,  \* self.retry_condition: [isNone, accepts]
    on_retry,         \* self.on_retry: "None", "log_retry" or "custom"
    hasName,          \* whether func has a __name__ attribute
    pc,               \* the statement of execute about to run
    attempt,          \* the local variable attempt
    func_result,      \* B: the local variable func_result
    e,                \* the exception bound by "except Exception as e"
    trace,            \* the effects so far, in program order
    result,           \* how execute ended
    other,            \* a second execute call on the same RetryHelper: its locals
    cur,              \* which of the two calls the thread now running is in
    cl,               \* a victoria_import_tme_routes_metric call: arguments, locals,
                      \* the requests sent so far with their answers, the outcome
    clock,            \* datetime.now(): the local wall-clock time, in seconds
    defaults,         \* the default start and end stored in the function objects
    gen               \* a call of a method that takes a time window: arguments,
                      \* locals of the generator loop, the outcome

\* the RetryHelper instance and func: shared by all execute calls on the instance
config == <<variant, max_retries, delay, retry_condition, on_retry, hasName>>

\* the locals of the execute call now running, with what it did and how it ended
locals == <<pc, attempt, func_result, e, trace, result>>

\* what a statement of the execute call now running cannot touch
\* the time-window methods of VictoriaMetricsClient
windows == <<clock, defaults, gen>>

outside == <<other, cur, cl, windows>>

vars == <<config, locals, outside>>

(* ---------------------------------------------------------------- bounds *)

\* The largest max_retries explored (the smallest is -1).
MaxRetriesBound == 2

\* func returns one of the values 1..MaxValue.
MaxValue == 2

(* ---------------------------------------------------------- input domain *)

Values == 1..MaxValue

NoValue == 0

NoExc == "no_exception"

\* Exception classes func or a callback may raise. KeyboardInterrupt derives
\* from BaseException only, so "except Exception" does not catch it.
Exceptions == {"ValueError", "KeyError", "KeyboardInterrupt"}

\* The delays explored.
Delays == {0, 2}

\* a faulty version of IsException: "except ValueError"
IsExceptionNarrow(x) == x = "ValueError"

\* issubclass(type(x), Exception): what "except Exception" catches.
IsException(x) == x \in {"ValueError", "KeyError", "AttributeError"}

CaughtKinds == {x \in Exceptions : IsException(x)}

(* ------------------------------------------------------------ the effects *)

Event(ev, n, val, exc, err) ==
    [ev |-> ev, n |-> n, val |-> val, exc |-> exc, err |-> err]

\* func(*args, **kwargs) ran at attempt n and returned val (exc = NoExc) or raised exc.
CallEvent(n, val, exc) == Event("call", n, val, exc, NoExc)

\* self.on_retry(n, payload) ran; payload is a result (val) or an exception
\* (exc); err is the exception the callback raised, NoExc when it returned.
OnRetryEvent(n, val, exc, err) == Event("on_retry", n, val, exc, err)

\* attempt += 1 ran and left attempt = n.
IncEvent(n) == Event("inc", n, NoValue, NoExc, NoExc)

\* time.sleep(d) ran.
SleepEvent(d) == Event("sleep", d, NoValue, NoExc, NoExc)

(* ----------------------------------------------------------- the outcomes *)

Running == [kind |-> "running", val |-> NoValue, exc |-> NoExc, by |-> "nobody"]

\* return <val>
Returned(val) == [kind |-> "return", val |-> val, exc |-> NoExc, by |-> "func"]

\* falling off the end of execute: an implicit "return None"
ReturnedNone == [kind |-> "none", val |-> NoValue, exc |-> NoExc, by |-> "execute"]

\* exception exc leaves execute; by says who raised it: "func" (the operation's own
\* exception), "on_retry" (the callback's), "exhausted" (the ValueError of line 66 of
\* variant B, whose message names func), "format" (building that message failed).
Raised(exc, by) == [kind |-> "raise", val |-> NoValue, exc |-> exc, by |-> by]

(* ------------------------------------------------------ the environment *)

\* What one invocation func(*args, **kwargs) can do: return a value or raise.
FuncOutcomes ==
    {[val |-> v, exc |-> NoExc] : v \in Values}
        \cup {[val |-> NoValue, exc |-> x] : x \in Exceptions}

\* What one call of the callback cb can do: return (NoExc) or raise. log_retry only
\* logs; a callback supplied by the caller may raise.
OnRetryOutcomes(cb) == IF cb = "custom" THEN {NoExc} \cup Exceptions ELSE {NoExc}

\* The retry_condition predicates explored. Variant A: None, or a predicate over the
\* caught exception (accepts = the classes it calls retryable). Variant B: a
\* predicate over the result (accepts = the results it is true of); the constructor
\* default "lambda result: True" is accepts = Values.
RetryConditions(v) ==
    IF v = "A"
    THEN {[isNone |-> TRUE, accepts |-> {}]}
             \cup {[isNone |-> FALSE, accepts |-> s] : s \in SUBSET CaughtKinds}
    ELSE {[isNone |-> FALSE, accepts |-> s] : s \in SUBSET Values}

\* The on_retry attributes __init__ can leave: variant A stores the argument as it
\* is (None included), variant B stores "on_retry or self.log_retry".
OnRetryCallbacks(v) ==
    IF v = "A" THEN {"None", "log_retry", "custom"} ELSE {"log_retry", "custom"}

(* ------------------------------------------------ conditions of the code *)

\* a faulty version of LoopCondition: "while attempt < self.max_retries"
LoopConditionStrict(a, m) == a < m

\* while attempt <= self.max_retries
LoopCondition(a, m) == a <= m

\* a faulty version of B_Accepted: the result itself is tested as well
B_AcceptedAboveOne(rc, v) == v \in rc.accepts /\ v > 1

\* variant B: if self.retry_condition(func_result)
B_Accepted(rc, v) == v \in rc.accepts

\* a faulty version of B_Exhausted: "attempt > self.max_retries"
B_ExhaustedStrict(a, m) == a > m

\* a faulty version of B_Exhausted: the comparison off by one
B_ExhaustedOffByOne(a, m) == a = m + 1

\* variant B: if attempt == self.max_retries
B_Exhausted(a, m) == a = m

\* variant B: raise ValueError(f"Function '{func.__name__}' failed after ...").
\* The message is built first: a callable without __name__ (a functools.partial, an
\* instance with __call__) raises AttributeError there instead.
B_ExhaustedError(named) ==
    IF named THEN Raised("ValueError", "exhausted")
    ELSE Raised("AttributeError", "format")

\* a faulty version of A_Propagates: gives up one attempt early
A_PropagatesOneEarly(a, m, rc, x) ==
    a + 1 >= m \/ (~rc.isNone /\ x \notin rc.accepts)

\* a faulty version of A_Propagates: the test for exhaustion forgotten
A_PropagatesIgnoringExhaustion(a, m, rc, x) == ~rc.isNone /\ x \notin rc.accepts

\* a faulty version of A_Propagates: retry_condition never asked
A_PropagatesOnlyWhenExhausted(a, m, rc, x) == a = m

\* variant A: if attempt == self.max_retries or
\*               (self.retry_condition and not self.retry_condition(e))
A_Propagates(a, m, rc, x) == a = m \/ (~rc.isNone /\ x \notin rc.accepts)

\* a faulty version of A_OnRetryIndex: the index before the increment
A_OnRetryIndexZeroBased(a) == a - 1

\* variant A: the first argument of self.on_retry(attempt, e), a being the value of
\* attempt when the call is made (the increment has already run)
A_OnRetryIndex(a) == a

\* a faulty version of B_OnRetryIndex: a 1-based index, as in variant A
B_OnRetryIndexOneBased(a) == a + 1

\* variant B: the first argument of self.on_retry(attempt, ...)
B_OnRetryIndex(a) == a

(* ------------------------- VictoriaMetricsClient: the time windows *)

\* datetime.min and datetime.max as seconds of local wall-clock time: a datetime
\* outside MinTime..MaxTime cannot be built (OverflowError)
MinTime == 0

MaxTime == 18900

\* the sample points of the time line are half hours
HalfHour == 1800

\* The local zone of the process. "fixed" has one UTC offset; "dst" puts its clocks
\* forward by GapLen at wall-clock time GapStart, so that the wall-clock times
\* GapStart .. GapStart + GapLen - 1 never show on a clock of that day.
Zones == {"fixed", "dst"}

BaseOffset == 3600

GapStart == 9000

GapLen == 3600

\* datetime.timestamp() of a naive datetime t (lines 103, 104, 154): seconds since
\* the epoch, t read as local time; a time inside the gap is read with the offset
\* in force before the gap
Timestamp(zone, t) ==
    IF zone = "dst" /\ t >= GapStart + GapLen
    THEN t - (BaseOffset + GapLen)
    ELSE t - BaseOffset

\* int(current_time.timestamp() * 1000), line 154
Millis(zone, t) == Timestamp(zone, t) * 1000

\* timedelta(minutes=60) of lines 93, 125, 164
DefaultWindowMinutes == 60

DefaultWindow == DefaultWindowMinutes * 60

\* step: int = 60 of lines 92, 127, 166
DefaultStep == 60

\* the wall-clock time at which the interpreter starts, and how many seconds of it
\* are followed
ClockStart == 5400

MaxElapsed == 2

\* the longest series followed
MaxSeries == 61

\* the methods whose start and end have defaults
WindowMethods ==
    {"get_metric_range_data", "generate_timestamps_and_values",
     "victoria_import_tme_routes_metric"}

\* start and end arguments given by the caller
Times == {0, HalfHour, 4 * HalfHour, 8 * HalfHour, MaxTime}

\* step arguments
Steps == {0 - HalfHour, 0, HalfHour, DefaultStep}

\* value arguments: omitted (None) or a number
NoneValue == [given |-> FALSE, v |-> 0]

Given(v) == [given |-> TRUE, v |-> v]

ValueArgs == {NoneValue, Given(0), Given(7)}

\* an element of values that randint(min_value, max_value) returned
Randint(lo, hi) == [given |-> FALSE, v |-> lo]

\* (min_value, max_value) arguments: the defaults, and a pair in the wrong order
Ranges == {[min |-> 0, max |-> 1000], [min |-> 5, max |-> 1]}

NoDefaults == [set |-> FALSE, start |-> 0, end |-> 0]

NoRequest == [sent |-> FALSE, start |-> 0, end |-> 0, step |-> 0]

GenIdle ==
    [pc |-> "idle", fn |-> "none", zone |-> "fixed", omitted |-> FALSE,
     called_at |-> 0, start |-> 0, end |-> 0, step |-> 0, value |-> NoneValue,
     range |-> [min |-> 0, max |-> 1000], current_time |-> 0,
     timestamps |-> <<>>, values |-> <<>>, request |-> NoRequest,
     outcome |-> "running"]

\* the module victoria_metrics has not been imported
WindowsIdle == clock = ClockStart /\ defaults = NoDefaults /\ gen = GenIdle

\* the locals of an execute call that has just been entered (attempt = 0, line 53)
Fresh ==
    [pc |-> "while", attempt |-> 0, func_result |-> NoValue, e |-> NoExc,
     trace |-> <<>>, result |-> Running]

(* ------------------------------------- VictoriaMetricsClient: the import *)

\* step_count arguments: omitted (None), 0 and a step number
StepCounts == {"None", "0", "2"}

\* risk_name arguments: omitted (None), the empty string and a name
RiskNames == {"None", "", "Fire"}

\* "if x:" for these arguments: None, 0 and "" are false
Truthy(x) == x \notin {"None", "0", ""}

\* the PromQL selector metric_name{security="..."[, step_count="..."|, risk_name="..."]}
Selector(sc, rn) == [security |-> "Unsafe", step_count |-> sc, risk_name |-> rn]

\* data_for_delete after lines 219-227: the second "if" overwrites the first
DataForDelete(sc, rn) ==
    IF Truthy(rn) THEN Selector("absent", rn)
    ELSE IF Truthy(sc) THEN Selector(sc, "absent")
    ELSE Selector("absent", "absent")

\* the attempts argument of the deletion poll
PollRetries == 20

\* What a POST can do: be answered 204, be answered with another status, or fail
\* without an answer (requests raises).
PostOutcomes == {"204", "500", "failed"}

\* What one list-series call of the poll can give: an empty data list, or anything
\* else (series still listed, or the request or the reading of the answer raised an
\* exception that is caught), or an exception that is not caught.
PollOutcomes == {"empty", "unconfirmed", "KeyboardInterrupt"}

\* condition=lambda response: not response['data'] (line 236)
PollAccepts == [isNone |-> FALSE, accepts |-> {"empty"}]

Request(req, match, resp) == [req |-> req, match |-> match, resp |-> resp]

ClientIdle ==
    [pc |-> "idle", delete_metrics_first |-> FALSE, step_count |-> "None",
     risk_name |-> "None", data_for_delete |-> "unset", attempt |-> 0,
     log |-> <<>>, outcome |-> "running"]

\* no execute call is in progress
RetryIdle ==
    /\ variant = "B" /\ max_retries = 0 /\ delay = 0
    /\ retry_condition = [isNone |-> FALSE, accepts |-> {}]
    /\ on_retry = "log_retry" /\ hasName = TRUE
    /\ pc = "idle" /\ attempt = 0 /\ func_result = NoValue /\ e = NoExc
    /\ trace = <<>> /\ result = Running
    /\ other = Fresh /\ cur = 1

\* victoria_import_tme_routes_metric is called
ImportInit ==
    /\ RetryIdle
    /\ WindowsIdle
    /\ \E d \in BOOLEAN, sc \in StepCounts, rn \in RiskNames :
           cl = [ClientIdle EXCEPT !.pc = "prepare", !.delete_metrics_first = d,
                                   !.step_count = sc, !.risk_name = rn]

ClientEnds(o) == [cl EXCEPT !.pc = "done", !.outcome = o]

\* lines 196-227: the series is generated (or generate_timestamps_and_values
\* raises), data and data_for_delete are built
Cl_Prepare ==
    /\ cl.pc = "prepare"
    /\ \/ cl' = [cl EXCEPT !.pc = "branch",
                           !.data_for_delete =
                               DataForDelete(cl.step_count, cl.risk_name)]
       \/ cl' = ClientEnds("generate_failed")
    /\ UNCHANGED <<config, locals, other, cur, windows>>

\* line 229: if delete_metrics_first
Cl_Branch ==
    /\ cl.pc = "branch"
    /\ cl' = [cl EXCEPT !.pc = IF cl.delete_metrics_first THEN "delete" ELSE "import"]
    /\ UNCHANGED <<config, locals, other, cur, windows>>

\* a faulty version of Cl_Delete: the status of the answer is not checked
Cl_DeleteUnchecked ==
    /\ cl.pc = "delete"
    /\ \E r \in PostOutcomes :
           cl' = [cl EXCEPT !.log = Append(@, Request("delete", cl.data_for_delete, r)),
                            !.pc = "poll", !.attempt = 0]
    /\ UNCHANGED <<config, locals, other, cur, windows>>

\* line 230, victoria_delete_metric (lines 55-65): the delete-series request is sent;
\* "assert response.status_code == 204"
Cl_Delete ==
    /\ cl.pc = "delete"
    /\ \E r \in PostOutcomes :
           LET sent == [cl EXCEPT !.log =
                           Append(@, Request("delete", cl.data_for_delete, r))]
           IN  cl' = IF r = "204" THEN [sent EXCEPT !.pc = "poll", !.attempt = 0]
                     ELSE [sent EXCEPT !.pc = "done",
                               !.outcome = IF r = "failed" THEN "RequestException"
                                           ELSE "AssertionError"]
    /\ UNCHANGED <<config, locals, other, cur, windows>>

\* lines 232-237: one attempt of HELPER.SEVERAL_ATTEMPTS(20, ..., victoria_get_metrics,
\* [data_for_delete], condition): the list-series request is sent (lines 79-84); an
\* accepted answer ends the poll, a rejected one is retried after a delay while
\* attempts are left, the last one raises (the loop of variant B)
Cl_Poll ==
    /\ cl.pc = "poll" /\ LoopCondition(cl.attempt, PollRetries)
    /\ \E r \in PollOutcomes :
           LET sent == [cl EXCEPT !.log =
                           Append(@, Request("list", cl.data_for_delete,
                                             IF r = "empty" THEN r ELSE "unconfirmed"))]
           IN  cl' = IF r = "KeyboardInterrupt"
                         THEN [sent EXCEPT !.pc = "done", !.outcome = r]
                     ELSE IF B_Accepted(PollAccepts, r)
                         THEN [sent EXCEPT !.pc = "import"]
                     ELSE IF B_Exhausted(cl.attempt, PollRetries)
                         THEN [sent EXCEPT !.pc = "done", !.outcome = "exhausted"]
                     ELSE [sent EXCEPT !.attempt = @ + 1]
    /\ UNCHANGED <<config, locals, other, cur, windows>>

\* line 239, victoria_import (lines 35-44): the import request is sent;
\* "assert response.status_code == 204"
Cl_Import ==
    /\ cl.pc = "import"
    /\ \E r \in PostOutcomes :
           cl' = [cl EXCEPT !.log = Append(@, Request("import", "data", r)),
                            !.pc = "done",
                            !.outcome = IF r = "204" THEN "returned"
                                        ELSE IF r = "failed" THEN "RequestException"
                                        ELSE "AssertionError"]
    /\ UNCHANGED <<config, locals, other, cur, windows>>

ImportNext == Cl_Prepare \/ Cl_Branch \/ Cl_Delete \/ Cl_Poll \/ Cl_Import

ImportSpec == ImportInit /\ [][ImportNext]_vars

(* ------------------- VictoriaMetricsClient: calls with a time window *)

\* the interpreter starts in some zone; victoria_metrics is not yet imported
GenInit ==
    /\ RetryIdle
    /\ cl = ClientIdle
    /\ clock = ClockStart
    /\ defaults = NoDefaults
    /\ \E z \in Zones : gen = [GenIdle EXCEPT !.pc = "unloaded", !.zone = z]

\* time passes
Tick ==
    /\ clock < ClockStart + MaxElapsed
    /\ clock' = clock + 1
    /\ UNCHANGED <<config, locals, other, cur, cl, defaults, gen>>

\* "import victoria_metrics": the class body runs and each def evaluates its
\* default expressions once, datetime.now() - timedelta(minutes=60) and
\* datetime.now() (lines 93-94, 125-126, 164-165); the values are stored in the
\* function objects
LoadModule ==
    /\ gen.pc = "unloaded"
    /\ defaults' = [set |-> TRUE, start |-> clock - DefaultWindow, end |-> clock]
    /\ gen' = [gen EXCEPT !.pc = "loaded"]
    /\ UNCHANGED <<config, locals, other, cur, cl, clock>>

\* the start and end a call is entered with: the caller's, or the stored defaults
BindWindow(omitted, s, en) ==
    IF omitted THEN [start |-> defaults.start, end |-> defaults.end]
    ELSE [start |-> s, end |-> en]

\* One of the three methods is called, with or without start and end; the
\* generator starts at "current_time = start; timestamps = []" (lines 150-151).
\* victoria_import_tme_routes_metric passes its own start, end, step, value,
\* min_value and max_value on to generate_timestamps_and_values (lines 196-203).
Gen_Call ==
    /\ gen.pc = "loaded"
    /\ \E f \in WindowMethods, om \in BOOLEAN, s \in Times, en \in Times,
          st \in Steps, v \in ValueArgs, r \in Ranges :
          /\ om => (s = 0 /\ en = 0)
          /\ f = "get_metric_range_data" => (v = NoneValue /\ r.min = 0)
          /\ LET w == BindWindow(om, s, en)
             IN  gen' = [gen EXCEPT
                    !.pc = IF f = "get_metric_range_data" THEN "query" ELSE "while",
                    !.fn = f, !.omitted = om, !.called_at = clock,
                    !.start = w.start, !.end = w.end, !.step = st, !.value = v,
                    !.range = r, !.current_time = w.start]
    /\ UNCHANGED <<config, locals, other, cur, cl, clock, defaults>>

GenEnds(o) == [gen EXCEPT !.pc = "done", !.outcome = o]

\* get_metric_range_data, lines 101-114: the query_range request carries
\* start.timestamp() and end.timestamp(); an answer with status 200 is returned, any
\* other reaches "raise <str>", a TypeError; the request itself may fail
Gen_QueryRange ==
    /\ gen.pc = "query"
    /\ \E o \in {"returned", "TypeError", "RequestException"} :
          gen' = [GenEnds(o) EXCEPT
                    !.request = [sent |-> TRUE,
                                 start |-> Timestamp(gen.zone, gen.start),
                                 end |-> Timestamp(gen.zone, gen.end),
                                 step |-> gen.step]]
    /\ UNCHANGED <<config, locals, other, cur, cl, clock, defaults>>

\* the loop of lines 153-155, one iteration:
\* while current_time < end: append the timestamp; current_time += timedelta(...),
\* which raises OverflowError when the sum is not a datetime
Gen_Loop ==
    /\ gen.pc = "while"
    /\ IF gen.current_time < gen.end
       THEN /\ Len(gen.timestamps) < MaxSeries
            /\ LET appended == [gen EXCEPT !.timestamps =
                                  Append(@, Millis(gen.zone, gen.current_time))]
                   next == gen.current_time + gen.step
               IN  gen' = IF next \in MinTime..MaxTime
                          THEN [appended EXCEPT !.current_time = next]
                          ELSE [appended EXCEPT !.pc = "done",
                                                !.outcome = "OverflowError"]
       ELSE gen' = [gen EXCEPT !.pc = "values"]
    /\ UNCHANGED <<config, locals, other, cur, cl, clock, defaults>>

\* lines 157-162: one value for each timestamp, randint(min_value, max_value) (a
\* ValueError when the range is empty) or the value given; return
Gen_Values ==
    /\ gen.pc = "values"
    /\ gen' = IF ~gen.value.given
              THEN IF gen.range.min > gen.range.max /\ gen.timestamps # <<>>
                   THEN GenEnds("ValueError")
                   ELSE [GenEnds("returned") EXCEPT !.values =
                            [i \in 1..Len(gen.timestamps) |->
                                Randint(gen.range.min, gen.range.max)]]
              ELSE [GenEnds("returned") EXCEPT !.values =
                            [i \in 1..Len(gen.timestamps) |-> gen.value]]
    /\ UNCHANGED <<config, locals, other, cur, cl, clock, defaults>>

GenNext == Tick \/ LoadModule \/ Gen_Call \/ Gen_QueryRange \/ Gen_Loop \/ Gen_Values

GenSpec == GenInit /\ [][GenNext]_vars

(* -------------------------------------------------------------- Init *)

Init ==
    /\ variant \in {"A", "B"}
    /\ max_retries \in (0 - 1)..MaxRetriesBound
    /\ delay \in Delays
    /\ retry_condition \in RetryConditions(variant)
    /\ on_retry \in OnRetryCallbacks(variant)
    /\ hasName \in BOOLEAN
    /\ pc = "while"
    /\ attempt = 0
    /\ func_result = NoValue
    /\ e = NoExc
    /\ trace = <<>>
    /\ result = Running
    /\ other = Fresh
    /\ cur = 1
    /\ cl = ClientIdle
    /\ WindowsIdle

Finish(r) == pc' = "done" /\ result' = r

(* ------------------------------ variant B: src/src/helpers/retry_helper.py *)

\* line 54
B_While ==
    /\ variant = "B" /\ pc = "while"
    /\ IF LoopCondition(attempt, max_retries)
       THEN pc' = "call" /\ UNCHANGED result
       ELSE Finish(ReturnedNone)
    /\ UNCHANGED <<outside, config, attempt, func_result, e, trace>>

\* line 56
B_Call ==
    /\ variant = "B" /\ pc = "call"
    /\ \E o \in FuncOutcomes :
        /\ trace' = Append(trace, CallEvent(attempt, o.val, o.exc))
        /\ IF o.exc = NoExc
           THEN pc' = "cond" /\ func_result' = o.val /\ UNCHANGED <<e, result>>
           ELSE IF IsException(o.exc)
           THEN pc' = "except" /\ e' = o.exc /\ UNCHANGED <<func_result, result>>
           ELSE Finish(Raised(o.exc, "func")) /\ UNCHANGED <<func_result, e>>
    /\ UNCHANGED <<outside, config, attempt>>

\* lines 57-58
B_Cond ==
    /\ variant = "B" /\ pc = "cond"
    /\ IF B_Accepted(retry_condition, func_result)
       THEN Finish(Returned(func_result))
       ELSE pc' = "on_retry" /\ UNCHANGED result
    /\ UNCHANGED <<outside, config, attempt, func_result, e, trace>>

\* line 60, inside the try block: an Exception the callback raises is caught by
\* line 62
B_OnRetryResult ==
    /\ variant = "B" /\ pc = "on_retry"
    /\ \E err \in OnRetryOutcomes(on_retry) :
        /\ trace' = Append(trace,
                OnRetryEvent(B_OnRetryIndex(attempt), func_result, NoExc, err))
        /\ IF err = NoExc
           THEN pc' = "check" /\ UNCHANGED <<e, result>>
           ELSE IF IsException(err)
           THEN pc' = "except" /\ e' = err /\ UNCHANGED result
           ELSE Finish(Raised(err, "on_retry")) /\ UNCHANGED e
    /\ UNCHANGED <<outside, config, attempt, func_result>>

\* lines 62-63, the except block: whatever the callback raises leaves execute
B_OnRetryExc ==
    /\ variant = "B" /\ pc = "except"
    /\ \E err \in OnRetryOutcomes(on_retry) :
        /\ trace' = Append(trace,
                OnRetryEvent(B_OnRetryIndex(attempt), NoValue, e, err))
        /\ IF err = NoExc
           THEN pc' = "check" /\ UNCHANGED result
           ELSE Finish(Raised(err, "on_retry"))
    /\ UNCHANGED <<outside, config, attempt, func_result, e>>

\* lines 65-66
B_Check ==
    /\ variant = "B" /\ pc = "check"
    /\ IF B_Exhausted(attempt, max_retries)
       THEN Finish(B_ExhaustedError(hasName))
       ELSE pc' = "inc" /\ UNCHANGED result
    /\ UNCHANGED <<outside, config, attempt, func_result, e, trace>>

\* a faulty version of B_Inc: the counter advanced by two
B_IncByTwo ==
    /\ variant = "B" /\ pc = "inc"
    /\ attempt' = attempt + 2
    /\ trace' = Append(trace, IncEvent(attempt'))
    /\ pc' = "sleep"
    /\ UNCHANGED <<outside, config, func_result, e, result>>

\* line 67
B_Inc ==
    /\ variant = "B" /\ pc = "inc"
    /\ attempt' = attempt + 1
    /\ trace' = Append(trace, IncEvent(attempt'))
    /\ pc' = "sleep"
    /\ UNCHANGED <<outside, config, func_result, e, result>>

\* line 68
B_Sleep ==
    /\ variant = "B" /\ pc = "sleep"
    /\ trace' = Append(trace, SleepEvent(delay))
    /\ pc' = "while"
    /\ UNCHANGED <<outside, config, attempt, func_result, e, result>>

(* ------------------------------- variant A: src/src/helper/retry_helper.py *)

\* line 44
A_While ==
    /\ variant = "A" /\ pc = "while"
    /\ IF LoopCondition(attempt, max_retries)
       THEN pc' = "call" /\ UNCHANGED result
       ELSE Finish(ReturnedNone)
    /\ UNCHANGED <<outside, config, attempt, func_result, e, trace>>

\* a faulty version of A_Call: a returned value is retried like a failure whenever a
\* retry_condition is set
A_CallRetriesResult ==
    /\ variant = "A" /\ pc = "call"
    /\ \E o \in FuncOutcomes :
        /\ trace' = Append(trace, CallEvent(attempt, o.val, o.exc))
        /\ IF o.exc = NoExc /\ retry_condition.isNone
           THEN Finish(Returned(o.val)) /\ UNCHANGED e
           ELSE IF o.exc = NoExc \/ IsException(o.exc)
           THEN pc' = "except" /\ e' = "ValueError" /\ UNCHANGED result
           ELSE Finish(Raised(o.exc, "func")) /\ UNCHANGED e
    /\ UNCHANGED <<outside, config, attempt, func_result>>

\* lines 45-47: return func(*args, **kwargs), or the exception it raises
A_Call ==
    /\ variant = "A" /\ pc = "call"
    /\ \E o \in FuncOutcomes :
        /\ trace' = Append(trace, CallEvent(attempt, o.val, o.exc))
        /\ IF o.exc = NoExc
           THEN Finish(Returned(o.val)) /\ UNCHANGED e
           ELSE IF IsException(o.exc)
           THEN pc' = "except" /\ e' = o.exc /\ UNCHANGED result
           ELSE Finish(Raised(o.exc, "func")) /\ UNCHANGED e
    /\ UNCHANGED <<outside, config, attempt, func_result>>

\* lines 48-49
A_Except ==
    /\ variant = "A" /\ pc = "except"
    /\ IF A_Propagates(attempt, max_retries, retry_condition, e)
       THEN Finish(Raised(e, "func"))
       ELSE pc' = "inc" /\ UNCHANGED result
    /\ UNCHANGED <<outside, config, attempt, func_result, e, trace>>

\* line 50
A_Inc ==
    /\ variant = "A" /\ pc = "inc"
    /\ attempt' = attempt + 1
    /\ trace' = Append(trace, IncEvent(attempt'))
    /\ pc' = "on_retry"
    /\ UNCHANGED <<outside, config, func_result, e, result>>

\* lines 51-52: the callback runs inside the except block, so whatever it raises
\* leaves execute
A_OnRetry ==
    /\ variant = "A" /\ pc = "on_retry"
    /\ IF on_retry = "None"
       THEN pc' = "sleep" /\ UNCHANGED <<trace, result>>
       ELSE \E err \in OnRetryOutcomes(on_retry) :
            /\ trace' = Append(trace,
                    OnRetryEvent(A_OnRetryIndex(attempt), NoValue, e, err))
            /\ IF err = NoExc
               THEN pc' = "sleep" /\ UNCHANGED result
               ELSE Finish(Raised(err, "on_retry"))
    /\ UNCHANGED <<outside, config, attempt, func_result, e>>

\* line 53
A_Sleep ==
    /\ variant = "A" /\ pc = "sleep"
    /\ trace' = Append(trace, SleepEvent(delay))
    /\ pc' = "while"
    /\ UNCHANGED <<outside, config, attempt, func_result, e, result>>

(* ------------------------------------------------------------------ Spec *)

Next ==
    \/ B_While \/ B_Call \/ B_Cond \/ B_OnRetryResult \/ B_OnRetryExc
    \/ B_Check \/ B_Inc \/ B_Sleep
    \/ A_While \/ A_Call \/ A_Except \/ A_Inc \/ A_OnRetry \/ A_Sleep

Spec == Init /\ [][Next]_vars

\* Every statement of execute that can run eventually runs: the thread is scheduled,
\* and func, retry_condition, on_retry and time.sleep return or raise.
FairSpec == Spec /\ WF_vars(Next)

(* ------------------------- two execute calls on one RetryHelper instance *)

\* the largest max_retries of the instance two threads call execute on
ConcMaxRetries == 1

\* the locals of the execute call now running, as one record
Current ==
    [pc |-> pc, attempt |-> attempt, func_result |-> func_result, e |-> e,
     trace |-> trace, result |-> result]

\* a faulty version of Switch: the attempt counter kept on the instance
\* ("self.attempt") and so shared by the two calls
SwitchSharingAttempt ==
    /\ pc' = other.pc /\ func_result' = other.func_result /\ e' = other.e
    /\ trace' = other.trace /\ result' = other.result
    /\ other' = Current
    /\ cur' = 3 - cur
    /\ UNCHANGED <<config, attempt, cl, windows>>

\* The interpreter suspends the thread running one execute call and resumes the
\* thread running the other. Each thread has its own frame of execute, with its
\* own attempt, func_result and e (lines 53-68: all of them plain locals); the
\* instance attributes are read, never written.
Switch ==
    /\ pc' = other.pc /\ attempt' = other.attempt
    /\ func_result' = other.func_result /\ e' = other.e
    /\ trace' = other.trace /\ result' = other.result
    /\ other' = Current
    /\ cur' = 3 - cur
    /\ UNCHANGED <<config, cl, windows>>

\* A RetryHelper whose execute is entered by two threads, on operations that have
\* a __name__, with callbacks that return.
ConcInit ==
    /\ variant \in {"A", "B"}
    /\ max_retries \in 0..ConcMaxRetries
    /\ delay = 0
    /\ retry_condition \in RetryConditions(variant)
    /\ on_retry = "log_retry"
    /\ hasName = TRUE
    /\ pc = "while"
    /\ attempt = 0
    /\ func_result = NoValue
    /\ e = NoExc
    /\ trace = <<>>
    /\ result = Running
    /\ other = Fresh
    /\ cur = 1
    /\ cl = ClientIdle
    /\ WindowsIdle

ConcNext == Next \/ Switch

ConcSpec == ConcInit /\ [][ConcNext]_vars

(* ------------------------------------------------- reading the trace *)

EventsOf(k) == SelectSeq(trace, LAMBDA x : x.ev = k)

Calls == EventsOf("call")

OnRetries == EventsOf("on_retry")

Sleeps == EventsOf("sleep")

\* the first arguments of a sequence of events
Indices(evs) == [i \in 1..Len(evs) |-> evs[i].n]

\* <<from, from + 1, ..., from + n - 1>>
Counting(from, n) == [i \in 1..n |-> from + i - 1]

Done == pc = "done"

\* Every call of on_retry made so far returned normally.
CallbacksReturned == \A i \in 1..Len(trace) : trace[i].err = NoExc

\* Variant B rejects the attempt of call event c: func raised an exception that
\* "except Exception" catches, or returned a result retry_condition is false of.
B_RejectedCall(c) ==
    \/ c.exc \in {"ValueError", "KeyError"}
    \/ c.exc = NoExc /\ c.val \notin retry_condition.accepts

\* Variant B accepts the attempt of call event c.
B_AcceptedCall(c) == c.exc = NoExc /\ c.val \in retry_condition.accepts

\* Variant A retries after call event c if attempts are left: func raised an
\* exception that is caught and that retry_condition (when there is one) is true of.
A_RetryableCall(c) ==
    /\ c.exc \in {"ValueError", "KeyError"}
    /\ retry_condition.isNone \/ c.exc \in retry_condition.accepts

AllRejected ==
    \A i \in 1..Len(Calls) :
        IF variant = "A" THEN A_RetryableCall(Calls[i]) ELSE B_RejectedCall(Calls[i])

(* ------------------------------------------------------------ the claims *)

\* C1. Variant B, max_retries >= 0, every on_retry call returning normally: for
\* every n <= max_retries, once the first n invocations are rejected (an exception
\* that is caught, or a result retry_condition is false of) and invocation n+1 has
\* returned a result retry_condition is true of, execute has returned exactly that
\* result after exactly n+1 invocations, and on_retry was called exactly n times,
\* with the indices 0, 1, ..., n-1 in that order. n = max_retries included.
C1_AcceptedAfterRejections ==
    (variant = "B" /\ max_retries >= 0 /\ CallbacksReturned) =>
        \A n \in 0..max_retries :
            ( /\ Len(Calls) >= n + 1
              /\ \A i \in 1..n : B_RejectedCall(Calls[i])
              /\ B_AcceptedCall(Calls[n + 1])
              /\ pc # "cond" )
            => /\ Done
               /\ result = Returned(Calls[n + 1].val)
               /\ Len(Calls) = n + 1
               /\ Indices(OnRetries) = Counting(0, n)

\* C1 witness: an acceptance on the last allowed attempt (n = max_retries = 2) after
\* one rejection by exception and one rejection by result.
C1_Witness ==
    /\ variant = "B" /\ Done /\ CallbacksReturned
    /\ max_retries = 2 /\ Len(Calls) = 3
    /\ Calls[1].exc = "KeyError"
    /\ Calls[2].exc = NoExc /\ Calls[2].val \notin retry_condition.accepts
    /\ result = Returned(Calls[3].val)
    /\ Len(OnRetries) = 2

\* C2 (as claimed). Variant B: when the attempt with index max_retries is rejected
\* (by exception or by result) and on_retry returned, execute raises the "retries
\* exhausted" ValueError naming func, for every func.
C2_ExhaustionErrorForEveryOperation ==
    ( /\ variant = "B" /\ Done /\ max_retries >= 0 /\ CallbacksReturned
      /\ Len(Calls) = max_retries + 1
      /\ B_RejectedCall(Calls[Len(Calls)]) )
    => result = Raised("ValueError", "exhausted")

\* C3 (as claimed). Variant B: an operation rejected on every attempt has on_retry
\* called exactly max_retries times when the terminal error is raised (no call for
\* the attempt after which execute raises).
C3_NoOnRetryOnTerminalAttempt ==
    ( /\ variant = "B" /\ Done /\ max_retries >= 0 /\ CallbacksReturned
      /\ AllRejected /\ result = Raised("ValueError", "exhausted") )
    => Len(OnRetries) = max_retries

\* C4. Both variants, max_retries >= 0, every on_retry call returning normally: if
\* every invocation was rejected (A: raised a caught exception retry_condition calls
\* retryable; B: raised a caught exception or returned a rejected result), then
\* when execute has ended it has raised, after exactly max_retries + 1 invocations
\* and exactly max_retries sleeps, each of delay.
C4_AlwaysRejected ==
    (Done /\ max_retries >= 0 /\ CallbacksReturned /\ AllRejected) =>
        /\ result.kind = "raise"
        /\ Len(Calls) = max_retries + 1
        /\ Len(Sleeps) = max_retries
        /\ \A i \in 1..Len(Sleeps) : Sleeps[i].n = delay

\* C4 witnesses: exhaustion after three rejected invocations and two sleeps of 2, in
\* variant B (mixing exceptions and rejected results) and in variant A.
C4_Witness ==
    /\ Done /\ max_retries = 2 /\ delay = 2 /\ CallbacksReturned /\ AllRejected
    /\ Len(Calls) = 3 /\ Len(Sleeps) = 2 /\ result.kind = "raise"
    /\ variant = "B" /\ Calls[1].exc = NoExc /\ Calls[3].exc = "ValueError"

C4_WitnessA ==
    /\ Done /\ max_retries = 2 /\ delay = 2 /\ CallbacksReturned /\ AllRejected
    /\ Len(Calls) = 3 /\ Len(Sleeps) = 2 /\ result.kind = "raise"
    /\ variant = "A"

LastCall == Calls[Len(Calls)]

LastEvent == trace[Len(trace)]

\* the number of events of kind k among the first i events
CountUpTo(k, i) == Cardinality({j \in 1..i : trace[j].ev = k})

\* C5 (as claimed). Variant A with an on_retry callback: n retryable failures
\* followed by a success call on_retry with the 0-based indices 0, 1, ..., n-1.
C5_ZeroBasedIndices ==
    (variant = "A" /\ Done /\ result.kind = "return" /\ on_retry # "None") =>
        Indices(OnRetries) = Counting(0, Len(Calls) - 1)

\* C5 (amended). Variant A: on each retryable failure that is followed by a retry
\* the steps are, in this order, attempt += 1, then on_retry(attempt, exception)
\* with the attempt just incremented (the 1-based number of the retry about to be
\* made) and the exception just caught, then sleep(delay); so n retryable failures
\* followed by a success call on_retry (when there is one) exactly n times, with the
\* indices 1, 2, ..., n.
C5_OnRetryAfterIncrement ==
    variant = "A" =>
        /\ \A i \in 1..Len(trace) :
            /\ trace[i].ev = "inc" =>
                /\ i > 1 /\ trace[i - 1].ev = "call" /\ A_RetryableCall(trace[i - 1])
                /\ trace[i].n = trace[i - 1].n + 1
            /\ trace[i].ev = "on_retry" =>
                /\ i > 2 /\ trace[i - 1].ev = "inc" /\ trace[i].n = trace[i - 1].n
                /\ trace[i].exc = trace[i - 2].exc
            /\ trace[i].ev = "sleep" =>
                /\ i > 1 /\ trace[i].n = delay
                /\ trace[i - 1].ev = (IF on_retry = "None" THEN "inc" ELSE "on_retry")
        /\ (Done /\ result.kind = "return") =>
            /\ \A i \in 1..(Len(Calls) - 1) : A_RetryableCall(Calls[i])
            /\ Indices(OnRetries) =
                    (IF on_retry = "None" THEN <<>> ELSE Counting(1, Len(Calls) - 1))

\* C5 witness: two retryable failures, then a success; on_retry saw 1 and 2.
C5_Witness ==
    /\ variant = "A" /\ Done /\ on_retry = "log_retry"
    /\ Len(Calls) = 3 /\ result = Returned(Calls[3].val)
    /\ Indices(OnRetries) = <<1, 2>> /\ Len(Sleeps) = 2

\* C6. Variant A: when func raises on the attempt with index max_retries, nothing
\* follows that invocation (no on_retry call, no sleep, no increment) and execute
\* ends by raising that same exception, as func raised it.
C6_LastExceptionReraised ==
    ( /\ variant = "A" /\ Len(Calls) > 0
      /\ LastCall.n = max_retries /\ LastCall.exc # NoExc )
    => /\ LastEvent = LastCall
       /\ pc \in {"except", "done"}
       /\ Done => result = Raised(LastCall.exc, "func")

\* C6 witness: a retryable KeyError on the attempts 0, 1 and 2 = max_retries leaves
\* execute as that KeyError.
C6_Witness ==
    /\ variant = "A" /\ Done /\ max_retries = 2 /\ Len(Calls) = 3
    /\ "KeyError" \in retry_condition.accepts
    /\ LastCall.exc = "KeyError" /\ LastCall.n = 2
    /\ result = Raised("KeyError", "func")
    /\ Len(OnRetries) = 2 /\ Len(Sleeps) = 2

\* C7. Variant A: when func raises an exception retry_condition is false of, nothing
\* follows that invocation (no on_retry call, no sleep) and execute ends by raising
\* that same exception; on the first attempt this means one invocation and no sleep,
\* whatever max_retries is.
C7_NonRetryablePropagates ==
    ( /\ variant = "A" /\ Len(Calls) > 0
      /\ LastCall.exc \in {"ValueError", "KeyError"}
      /\ ~retry_condition.isNone /\ LastCall.exc \notin retry_condition.accepts )
    => /\ LastEvent = LastCall
       /\ pc \in {"except", "done"}
       /\ Done => result = Raised(LastCall.exc, "func")
       /\ LastCall.n = 0 => (Len(Calls) = 1 /\ Sleeps = <<>> /\ OnRetries = <<>>)

\* C7 witness: max_retries = 2, only ValueError is retryable, the first invocation
\* raises KeyError, which leaves execute at once.
C7_Witness ==
    /\ variant = "A" /\ Done /\ max_retries = 2
    /\ retry_condition = [isNone |-> FALSE, accepts |-> {"ValueError"}]
    /\ trace = <<CallEvent(0, NoValue, "KeyError")>>
    /\ result = Raised("KeyError", "func")

\* C8. Variant A: when an invocation of func returns, execute has returned that
\* value and nothing follows the invocation, whatever the value and whatever
\* retry_condition is.
C8_SuccessReturnedImmediately ==
    (variant = "A" /\ Len(Calls) > 0 /\ LastCall.exc = NoExc) =>
        /\ Done
        /\ result = Returned(LastCall.val)
        /\ LastEvent = LastCall

\* C8 witness: after one retried failure the second invocation returns 2, a value
\* retry_condition (a predicate over exceptions) was never asked about.
C8_Witness ==
    /\ variant = "A" /\ Done
    /\ retry_condition = [isNone |-> FALSE, accepts |-> {"ValueError"}]
    /\ Len(Calls) = 2 /\ Calls[1].exc = "ValueError"
    /\ result = Returned(2)

\* C9. Both variants, max_retries >= 0: the k-th sleep comes after exactly k
\* invocations (none before the first invocation, one between two invocations), and
\* when execute has ended the sleeps are one fewer than the invocations, so none
\* follows the last invocation; with max_retries = 0 there is exactly one invocation
\* and no sleep.
C9_SleepOnlyBetweenAttempts ==
    max_retries >= 0 =>
        /\ \A i \in 1..Len(trace) :
            trace[i].ev = "sleep" => CountUpTo("call", i) = CountUpTo("sleep", i)
        /\ Done => (Len(Calls) >= 1 /\ Len(Sleeps) = Len(Calls) - 1)
        /\ (Done /\ max_retries = 0) => (Len(Calls) = 1 /\ Sleeps = <<>>)

\* C9 witness: three invocations with a sleep after the first and after the second,
\* and the run ended by the exhaustion error.
C9_Witness ==
    /\ Done /\ variant = "B" /\ result = Raised("ValueError", "exhausted")
    /\ Len(Calls) = 3 /\ Len(Sleeps) = 2
    /\ LastEvent.ev = "on_retry"

\* C10. Both variants, max_retries >= 0: in every state 0 <= attempt <= max_retries,
\* and func has been invoked at most max_retries + 1 times.
C10_AttemptBounded ==
    max_retries >= 0 =>
        /\ attempt \in 0..max_retries
        /\ Len(Calls) <= max_retries + 1

\* C10 witness: the counter at max_retries = 2 with all three invocations made.
C10_Witness ==
    /\ max_retries = 2 /\ attempt = max_retries /\ Len(Calls) = max_retries + 1
    /\ variant = "A" /\ Done


\* The retry_condition of variant B is true of every result, as the constructor
\* default "lambda result: True" is.
B_AlwaysTrue == variant = "B" /\ retry_condition.accepts = Values

After(j) == SubSeq(trace, j + 1, Len(trace))

C14_LastExceptionRaised ==
    ( /\ variant = "B" /\ Done /\ max_retries >= 0 /\ CallbacksReturned
      /\ hasName /\ Len(Calls) = max_retries + 1
      /\ LastCall.exc \in {"ValueError", "KeyError"} )
    => result = Raised(LastCall.exc, "func")

\* C16 (as claimed). Variant B: whatever on_retry does, raising included, it is called
\* at most once per attempt, no exception of its own ends execute, and an operation
\* rejected on every attempt still gets its max_retries + 1 invocations and
\* max_retries sleeps.
C16_OnRetryNeverAffectsControlFlow ==
    (variant = "B" /\ max_retries >= 0) =>
        /\ \A i, j \in 1..Len(OnRetries) : OnRetries[i].n = OnRetries[j].n => i = j
        /\ Done => result.by # "on_retry"
        /\ (Done /\ AllRejected) =>
                (Len(Calls) = max_retries + 1 /\ Len(Sleeps) = max_retries)

\* C19. Both variants. With max_retries >= 0 the while loop is never left through its
\* condition: execute never ends by the implicit "return None"; when it returns, the
\* last thing it did was the invocation whose value it returns (in variant B a value
\* retry_condition accepts); every other ending is a raise. With a negative
\* max_retries execute returns None without invoking func.
C19_NoImplicitNone ==
    /\ max_retries >= 0 =>
        /\ ~(pc = "while" /\ attempt > max_retries)
        /\ Done =>
            /\ result.kind \in {"return", "raise"}
            /\ result.kind = "return" =>
                /\ LastEvent = LastCall /\ LastCall.exc = NoExc
                /\ result = Returned(LastCall.val)
                /\ variant = "B" => LastCall.val \in retry_condition.accepts
    /\ (max_retries < 0 /\ Done) => (result = ReturnedNone /\ trace = <<>>)

\* C19 witness: variant B returns the value of its third and last allowed invocation.
C19_Witness ==
    /\ variant = "B" /\ Done /\ max_retries = 2 /\ Len(Calls) = 3
    /\ result = Returned(2) /\ retry_condition.accepts = {2}
    /\ Calls[1].val = 1 /\ Calls[2].exc = "ValueError"

\* the negative case of C19: execute has ended, by "return None", without a call
C19_WitnessNegative ==
    /\ max_retries < 0 /\ Done /\ result = ReturnedNone /\ trace = <<>>


\* The states of the retry state machine: Attempting (about to invoke func),
\* Evaluating (deciding on the outcome of the invocation, on_retry included),
\* Sleeping (about to sleep), Ended.
Phase(p) ==
    IF p \in {"while", "call"} THEN "Attempting"
    ELSE IF p = "sleep" THEN "Sleeping"
    ELSE IF p = "done" THEN "Ended"
    ELSE "Evaluating"

\* How execute ended: "Accepted" (a result returned), "Exhausted" (variant B: the
\* raise of line 66; variant A: a retryable exception re-raised at attempt ==
\* max_retries), "NonRetryable" (variant A: an exception retry_condition is false
\* of), "Uncaught" (an exception of func that "except Exception" does not catch),
\* "CallbackFailed" (an exception of on_retry), "None" (the loop was not entered).
Ending ==
    IF result.kind = "return" THEN "Accepted"
    ELSE IF result.kind = "none" THEN "None"
    ELSE IF result.by \in {"exhausted", "format"} THEN "Exhausted"
    ELSE IF result.by = "on_retry" THEN "CallbackFailed"
    ELSE IF result.exc \notin {"ValueError", "KeyError"} THEN "Uncaught"
    ELSE IF retry_condition.isNone \/ result.exc \in retry_condition.accepts
    THEN "Exhausted"
    ELSE "NonRetryable"

\* The steps of the state machine: the invocation leads from Attempting to
\* Evaluating, or straight to the end when its outcome needs no evaluation (variant A
\* returning, an uncaught exception); Evaluating leads to Sleeping or to the end;
\* Sleeping leads to Attempting only, for the attempt after the last one made.
MachineStep ==
    /\ <<Phase(pc), Phase(pc')>> \in
            { <<"Attempting", "Attempting">>, <<"Attempting", "Evaluating">>,
              <<"Attempting", "Ended">>, <<"Evaluating", "Evaluating">>,
              <<"Evaluating", "Sleeping">>, <<"Evaluating", "Ended">>,
              <<"Sleeping", "Attempting">> }
    /\ Phase(pc) = "Sleeping" => attempt' = LastCall.n + 1
    /\ (Phase(pc) = "Attempting" /\ Phase(pc') = "Evaluating") =>
            (Len(trace') = Len(trace) + 1 /\ trace'[Len(trace')].n = attempt)

CallsIn(c) == SelectSeq(c.trace, LAMBDA x : x.ev = "call")

\* the on_retry calls in the trace of execute call c
OnRetriesIn(c) == SelectSeq(c.trace, LAMBDA x : x.ev = "on_retry")

\* every invocation execute call c has made was rejected (retried, attempts left)
AllRejectedIn(c) ==
    \A i \in 1..Len(CallsIn(c)) :
        IF variant = "A" THEN A_RetryableCall(CallsIn(c)[i])
        ELSE B_RejectedCall(CallsIn(c)[i])

\* Execute call c has its own attempt counter and its own budget: its invocations
\* are numbered 0, 1, 2, ... whatever the other call does, there are never more
\* than max_retries + 1 of them, and when all of them are rejected it ends only
\* after exactly max_retries + 1.
OwnBudget(c) ==
    /\ c.attempt \in 0..max_retries
    /\ \A i \in 1..Len(CallsIn(c)) : CallsIn(c)[i].n = i - 1
    /\ \A i \in 1..Len(OnRetriesIn(c)) :
            OnRetriesIn(c)[i].n \in 0..max_retries + 1
    /\ Len(CallsIn(c)) <= max_retries + 1
    /\ (c.pc = "done" /\ AllRejectedIn(c)) => Len(CallsIn(c)) = max_retries + 1

\* C17. Two execute calls on the same instance, in any interleaving of their
\* statements: no step writes max_retries, delay, retry_condition or on_retry (nor
\* the variant or the operation), and each call counts its own attempts from 0 and
\* gets its own max_retries + 1 invocations, whatever the other call has done.
C17_CallsIndependent ==
    /\ [][config' = config]_vars
    /\ [](OwnBudget(Current) /\ OwnBudget(other))

\* C17 witness: variant B, max_retries = 1; the call now running has used up its
\* two invocations and raised the exhaustion error while the other call, entered
\* before that, is suspended between its first and its second invocation.
C17_Witness ==
    /\ variant = "B" /\ max_retries = 1
    /\ Done /\ result = Raised("ValueError", "exhausted") /\ Len(Calls) = 2
    /\ other.result = Running /\ other.attempt = 1 /\ Len(CallsIn(other)) = 1

\* the requests of kind k the import call has sent, in order
Sent(k) == SelectSeq(cl.log, LAMBDA x : x.req = k)

\* C15. victoria_import_tme_routes_metric. With delete_metrics_first true, when the
\* import request is sent the delete-series request was sent before it and answered
\* 204, and after the delete at most PollRetries + 1 list-series requests for the
\* same selector were sent, the last of them answered with an empty set; if the
\* delete is not answered 204, or the poll uses up its attempts, no import request is
\* sent. With delete_metrics_first false the only request ever sent is the import.
C15_ImportAfterConfirmedDelete ==
    LET L == cl.log
        n == Len(L)
        sel == DataForDelete(cl.step_count, cl.risk_name)
    IN  /\ Len(Sent("import")) <= 1
        /\ (cl.delete_metrics_first /\ Sent("import") # <<>>) =>
              /\ n >= 3 /\ L[n].req = "import"
              /\ L[1] = Request("delete", sel, "204")
              /\ \A i \in 2..(n - 1) : L[i].req = "list" /\ L[i].match = sel
              /\ \A i \in 2..(n - 2) : L[i].resp # "empty"
              /\ L[n - 1].resp = "empty"
              /\ n - 2 <= PollRetries + 1
        /\ (\E i \in 1..n : L[i].req = "delete" /\ L[i].resp # "204") =>
              Sent("import") = <<>>
        /\ cl.outcome = "exhausted" =>
              /\ Sent("import") = <<>>
              /\ Len(Sent("list")) = PollRetries + 1
        /\ ~cl.delete_metrics_first =>
              /\ Sent("delete") = <<>> /\ Sent("list") = <<>>
              /\ cl.pc = "done" /\ cl.outcome # "generate_failed" => n = 1

\* C15 witness: the import request sent after a delete answered 204 and a poll whose
\* third list-series request was the first to find the selector gone.
C15_Witness ==
    /\ cl.delete_metrics_first /\ cl.pc = "done" /\ cl.outcome = "returned"
    /\ Len(Sent("delete")) = 1 /\ Len(Sent("list")) = 3 /\ Len(Sent("import")) = 1
    /\ cl.risk_name = "Fire"

\* C15, the poll running out: all PollRetries + 1 list-series requests sent, none
\* answered with an empty set, the call ended without an import request.
C15_WitnessExhausted ==
    /\ cl.outcome = "exhausted" /\ Len(Sent("list")) = PollRetries + 1
    /\ Sent("import") = <<>>

\* C15, delete_metrics_first false: the import request alone.
C15_WitnessDirect ==
    /\ ~cl.delete_metrics_first /\ cl.pc = "done" /\ cl.log # <<>>

\* a call of one of the three methods has been entered
Called == gen.pc \notin {"idle", "unloaded", "loaded"}

\* C18 (as claimed). Every call of get_metric_range_data,
\* generate_timestamps_and_values or victoria_import_tme_routes_metric that omits
\* start and end runs with end = the time of the call and start = that time minus
\* 60 minutes.
C18_WindowsAtCallTime ==
    (Called /\ gen.omitted) =>
        /\ gen.end = gen.called_at
        /\ gen.start = gen.called_at - DefaultWindow

\* generate_timestamps_and_values has returned (called directly, or from
\* victoria_import_tme_routes_metric with that method's arguments)
Generated ==
    /\ gen.fn \in {"generate_timestamps_and_values",
                   "victoria_import_tme_routes_metric"}
    /\ gen.pc = "done" /\ gen.outcome = "returned"

\* the k-th point of the series, as a wall-clock time
Point(k) == gen.start + (k - 1) * gen.step

\* C20 (as claimed, the series returned). When generate_timestamps_and_values
\* returns for a step > 0, timestamps and values have the same length; the
\* timestamps are those of start, start + step, start + 2*step, ... in milliseconds,
\* all the points strictly before end and no others (none when start >= end); they
\* are strictly increasing; and when value is given every element of values is it.
C20_SeriesAsClaimed ==
    (Generated /\ gen.step > 0) =>
        LET ts == gen.timestamps
            n == Len(ts)
        IN  /\ Len(gen.values) = n
            /\ \A k \in 1..n : ts[k] = Millis(gen.zone, Point(k)) /\ Point(k) < gen.end
            /\ Point(n + 1) >= gen.end
            /\ gen.start >= gen.end => n = 0
            /\ \A k \in 1..(n - 1) : ts[k] < ts[k + 1]
            /\ gen.value.given => \A k \in 1..n : gen.values[k] = gen.value

\* C20 (as claimed, termination for step > 0): a call with step > 0 that ends
\* returns.
C20_PositiveStepReturns ==
    (gen.fn = "generate_timestamps_and_values" /\ gen.pc = "done" /\ gen.step > 0) =>
        gen.outcome = "returned"

\* C20 (as claimed, step <= 0): a call with step <= 0 and start < end never ends.
C20_NonPositiveStepNeverEnds ==
    (gen.fn = "generate_timestamps_and_values" /\ gen.step <= 0
        /\ gen.start < gen.end) => gen.pc # "done"

====
